---- MODULE Spec2Model ----
(***************************************************************************)
(* Outbound voice agent: the session store and the webhook handlers that   *)
(* read and mutate it (call launch, voice-script GET, speech POST, status  *)
(* callback).  Every handler is an async function on a single-threaded     *)
(* event loop: the code between two awaits is one atomic action, and the   *)
(* handlers' awaits are the points where other handlers interleave.        *)
(*                                                                         *)
(* Texts are sequences of one-character strings so that trim() is computed *)
(* rather than assumed.  The session store module (@/lib/session-store) is *)
(* not part of the sources at hand; its operations are modelled from the   *)
(* specification's section 4.1/4.2 and are marked as such.                 *)
(***************************************************************************)
EXTENDS Integers, Sequences, FiniteSets, Bags, TLC

VARIABLES sessions, tasks, started, event

vars == <<sessions, tasks, started, event>>

(* ------------------------------ bounds -------------------------------- *)

\* Number of session identifiers crypto.randomUUID() may hand out.
MaxSessions == 2
\* Total number of requests, of any kind, received in one behaviour.
MaxRequests == 4

SessionIds == 1..MaxSessions
\* undefined: no session resolved / no "session" query parameter
NoSession == 0
\* call.sid: the provider's identifier of the call placed for a session (one
\* call is placed per session), and the absent CallSid
CallSidOf(id) == <<"CA", id>>
CallSids == {CallSidOf(id) : id \in SessionIds}
NoSid == <<>>

(* ------------------------------ texts --------------------------------- *)

Null == <<"NULL">>               \* undefined / null / absent form field
NoError == "none"

Greeting == <<"G">>              \* session.config.greeting
OpeningQuestion == <<"Q">>       \* session.config.openingQuestion
FallbackLine == <<"F">>          \* fallbackLine()
RePrompt == <<"R">>              \* "I didn't quite catch that. ..."
SummaryUnavailable == <<"U">>    \* "Call completed. Summary unavailable."

IsSpace(c) == c = " "

RECURSIVE TrimStart(_)
TrimStart(s) ==
    IF s = <<>> THEN s
    ELSE IF IsSpace(Head(s)) THEN TrimStart(Tail(s)) ELSE s

RECURSIVE TrimEnd(_)
TrimEnd(s) ==
    IF s = <<>> THEN s
    ELSE IF IsSpace(s[Len(s)]) THEN TrimEnd(SubSeq(s, 1, Len(s) - 1)) ELSE s

\* String.prototype.trim()
Trim(s) == TrimEnd(TrimStart(s))

\* a?.trim() ?? b : optional chaining short-circuits on null/undefined only;
\* an empty string is not nullish, so "" ?? b is "".
TrimOrElse(a, b) == IF a = Null THEN b ELSE Trim(a)

\* String.prototype.toLowerCase() on the provider's status vocabulary.
ToLowerCase(s) ==
    CASE s = "COMPLETED" -> "completed"
      [] OTHER -> s

(* ------------------------- session store ------------------------------ *)

Statuses ==
    {"draft", "queued", "ringing", "in-progress", "completed", "no-answer", "failed"}
Terminal == {"completed", "no-answer", "failed"}

Rank(st) ==
    CASE st = "draft" -> 0
      [] st = "queued" -> 1
      [] st = "ringing" -> 2
      [] st = "in-progress" -> 3
      [] OTHER -> 4

\* Section 4.2: draft -> queued -> ringing -> in-progress -> terminal; a
\* target is legal when it lies ahead of the current status on that graph.
Reachable(cur, target) == cur \notin Terminal /\ Rank(cur) < Rank(target)

Turn(role, content) == [role |-> role, content |-> content]

\* createSession(config)
NewSession(id) ==
    [sessionId |-> id, status |-> "draft", transcript |-> <<>>,
     summary |-> Null, callSid |-> NoSid, lastError |-> NoError]

CreateSession(ss, id) == ss @@ (id :> NewSession(id))

\* getSession(id) !== undefined
HasSession(ss, id) == id \in DOMAIN ss

\* lookupSessionByCallSid(callSid)
LookupSessionByCallSid(ss, sid) ==
    IF \E id \in DOMAIN ss : ss[id].callSid = sid
    THEN CHOOSE id \in DOMAIN ss : ss[id].callSid = sid
    ELSE NoSession

\* updateStatus(id, status): applied when legal, silently ignored otherwise
UpdateStatus(ss, id, target) ==
    IF HasSession(ss, id) /\ Reachable(ss[id].status, target)
    THEN [ss EXCEPT ![id].status = target]
    ELSE ss

\* appendMessage(id, role, content)
AppendMessage(ss, id, role, content) ==
    IF HasSession(ss, id)
    THEN [ss EXCEPT ![id].transcript = Append(@, Turn(role, content))]
    ELSE ss

HasSystemTurn(tr) == \E i \in 1..Len(tr) : tr[i].role = "system"

\* ensureGreetingCaptured(id, greeting)
EnsureGreetingCaptured(ss, id, greeting) ==
    IF HasSession(ss, id) /\ ~HasSystemTurn(ss[id].transcript)
    THEN AppendMessage(ss, id, "system", greeting)
    ELSE ss

\* getMessagesForModel(id)
GetMessagesForModel(ss, id) ==
    IF HasSession(ss, id)
    THEN SelectSeq(ss[id].transcript,
                   LAMBDA t : t.role \in {"system", "user", "assistant"})
    ELSE <<>>

\* setSummary(id, text), setError(id, text), setCallSid(id, sid)
SetSummary(ss, id, text) ==
    IF HasSession(ss, id) THEN [ss EXCEPT ![id].summary = text] ELSE ss

SetError(ss, id, text) ==
    IF HasSession(ss, id) THEN [ss EXCEPT ![id].lastError = text] ELSE ss

SetCallSid(ss, id, sid) ==
    IF HasSession(ss, id) THEN [ss EXCEPT ![id].callSid = sid] ELSE ss

(* --------------------------- request inputs --------------------------- *)

\* SpeechResult form field: absent, whitespace only, or an utterance.
SpeechResults == {Null, <<" ">>, <<" ", "h", "i">>}

\* Outcome of openai.chat.completions.create: rejected, or resolved with
\* choices[0]?.message?.content absent, blank, or a text.
Completion(ok, content) == [ok |-> ok, content |-> content]
ReplyOutcomes ==
    {Completion(FALSE, Null), Completion(TRUE, Null),
     Completion(TRUE, <<" ">>), Completion(TRUE, <<"o", "k", " ">>)}
SummaryOutcomes ==
    {Completion(FALSE, Null), Completion(TRUE, Null),
     Completion(TRUE, <<" ", "s", "1">>)}

\* CallStatus form field as sent by the provider ("" stands for an absent or
\* empty field: both are falsy).
NoStatus == ""
ProviderStatuses ==
    {"initiated", "queued", "ringing", "answered", "in-progress", "completed",
     "no-answer", "busy", "failed", "canceled", "bogus", "COMPLETED", NoStatus}

\* Launch request: the process environment and the JSON body, by what
\* payloadSchema.parse looks at (string lengths, temperature in tenths).
Payload(to, agent, greeting, objective, voice, language, temp) ==
    [json |-> TRUE, to |-> to, agentName |-> agent, greeting |-> greeting,
     objective |-> objective, voice |-> voice, language |-> language,
     temperature |-> temp]
BadJson == [Payload(0, 0, 0, 0, 0, 0, 0) EXCEPT !.json = FALSE]
Payloads ==
    {Payload(10, 5, 12, 20, 5, 5, 6), Payload(7, 5, 12, 20, 5, 5, 6),
     Payload(10, 5, 12, 20, 5, 5, 16), BadJson}
Envs == {"ok", "noCallerId", "noPublicUrl"}

\* Message of the error client.calls.create rejects with.
PlaceError == "call failed"

(* ----------------------------- bookkeeping ---------------------------- *)

\* A handler suspended at an await.
Task(kind, pc, id, speech, messages) ==
    [kind |-> kind, pc |-> pc, session |-> id, speech |-> speech,
     messages |-> messages]

Suspend(t) == tasks (+) SetToBag({t})
Resume(t) == tasks (-) SetToBag({t})
InFlight == BagToSet(tasks)

\* What the last handler step did and, when it returned, the response: its
\* HTTP status (0 while the handler is suspended), the text of twiml.say, the
\* prompt said inside the gather, and the error message of a JSON error body.
Event(handler, step, id, code, say, gather) ==
    [handler |-> handler, step |-> step, session |-> id, code |-> code,
     say |-> say, gather |-> gather, error |-> NoError]

\* NextResponse.json({ error: message }, { status: code })
ErrorEvent(handler, step, id, code, message) ==
    [Event(handler, step, id, code, Null, Null) EXCEPT !.error = message]

\* A request is received.
Receive ==
    /\ started < MaxRequests
    /\ started' = started + 1

Init ==
    /\ sessions = <<>>
    /\ tasks = EmptyBag
    /\ started = 0
    /\ event = Event("none", "init", NoSession, 0, Null, Null)

(* ------------------------- POST /api/calls ---------------------------- *)

\* Variant: a schema without the length check of agentName.
PayloadValid_NoAgentName(p) ==
    /\ p.to >= 8
    /\ p.greeting >= 6
    /\ p.objective >= 6
    /\ p.voice >= 2
    /\ p.language >= 2
    /\ p.temperature >= 0 /\ p.temperature <= 15

PayloadValid(p) ==
    /\ p.to >= 8
    /\ p.agentName >= 2
    /\ p.greeting >= 6
    /\ p.objective >= 6
    /\ p.voice >= 2
    /\ p.language >= 2
    /\ p.temperature >= 0 /\ p.temperature <= 15

\* crypto.randomUUID(): an identifier no session has.  Identifiers are opaque,
\* so the least unused one stands for any fresh one.
FreshId(ss) ==
    IF SessionIds \subseteq DOMAIN ss THEN NoSession
    ELSE CHOOSE id \in SessionIds \ DOMAIN ss :
            \A j \in SessionIds \ DOMAIN ss : id <= j

\* Up to the await of client.calls.create.
LaunchRequest(env, p) ==
    /\ Receive
    /\ IF env # "ok"
       THEN /\ event' = Event("launch", "noEnv", NoSession, 500, Null, Null)
            /\ UNCHANGED <<sessions, tasks>>
       ELSE IF ~p.json
       THEN /\ event' = Event("launch", "badJson", NoSession, 400, Null, Null)
            /\ UNCHANGED <<sessions, tasks>>
       ELSE IF ~PayloadValid(p)
       THEN /\ event' = Event("launch", "invalid", NoSession, 422, Null, Null)
            /\ UNCHANGED <<sessions, tasks>>
       ELSE LET id == FreshId(sessions)
            IN /\ id # NoSession
               /\ sessions' = CreateSession(sessions, id)
               /\ tasks' = Suspend(Task("launch", "placeCall", id, Null, <<>>))
               /\ event' = Event("launch", "created", id, 0, Null, Null)

\* Variant: a failed placement also marks the session failed.
LaunchStore_MarksFailed(ss, id, sid) ==
    IF sid # NoSid
    THEN UpdateStatus(SetCallSid(ss, id, sid), id, "queued")
    ELSE UpdateStatus(SetError(ss, id, PlaceError), id, "failed")

\* The store after client.calls.create resolved with sid or rejected.
LaunchStore(ss, id, sid) ==
    IF sid # NoSid
    THEN UpdateStatus(SetCallSid(ss, id, sid), id, "queued")
    ELSE SetError(ss, id, PlaceError)

LaunchPlaced(t, ok) ==
    /\ t \in InFlight /\ t.kind = "launch"
    /\ sessions' = LaunchStore(sessions, t.session,
                               IF ok THEN CallSidOf(t.session) ELSE NoSid)
    /\ tasks' = Resume(t)
    /\ event' = IF ok
                THEN Event("launch", "placed", t.session, 201, Null, Null)
                ELSE ErrorEvent("launch", "placeFailed", t.session, 502, PlaceError)
    /\ UNCHANGED started

(* ----------------------- GET /api/voice-script ------------------------ *)

\* Variant: the greeting is appended on every request, without the check.
VoiceScriptStore_AlwaysAppends(ss, id) ==
    UpdateStatus(AppendMessage(ss, id, "system", Greeting), id, "in-progress")

\* Variant: the session is set to in-progress whatever its status was.
VoiceScriptStore_ForcesInProgress(ss, id) ==
    [EnsureGreetingCaptured(ss, id, Greeting) EXCEPT ![id].status = "in-progress"]

\* Variant: the greeting is inserted in front of the turns already captured.
VoiceScriptStore_Prepends(ss, id) ==
    UpdateStatus([ss EXCEPT ![id].transcript =
                      IF HasSystemTurn(ss[id].transcript) THEN @
                      ELSE <<Turn("system", Greeting)>> \o @],
                 id, "in-progress")

VoiceScriptStore(ss, id) ==
    UpdateStatus(EnsureGreetingCaptured(ss, id, Greeting), id, "in-progress")

\* q = NoSession: the session parameter is missing or no UUID.
VoiceScriptGET(q) ==
    /\ Receive
    /\ UNCHANGED tasks
    /\ IF q = NoSession
       THEN /\ event' = Event("voice", "noParam", NoSession, 400, Null, Null)
            /\ UNCHANGED sessions
       ELSE IF ~HasSession(sessions, q)
       THEN /\ event' = Event("voice", "unknown", NoSession, 404, Null, Null)
            /\ UNCHANGED sessions
       ELSE /\ sessions' = VoiceScriptStore(sessions, q)
            /\ event' = Event("voice", "greeted", q, 200, Greeting, OpeningQuestion)

(* ----------------------- POST /api/voice-script ---------------------- *)

\* Variant: the handler does not look the session up before it reads the form.
SpeechPOST_NoLookup(q, raw) ==
    /\ Receive
    /\ UNCHANGED sessions
    /\ IF q = NoSession
       THEN /\ event' = Event("speech", "noParam", NoSession, 400, Null, Null)
            /\ UNCHANGED tasks
       ELSE /\ tasks' = Suspend(Task("speech", "formData", q, raw, <<>>))
            /\ event' = Event("speech", "accepted", q, 0, Null, Null)

\* Up to the await of request.formData(); q = NoSession: no session parameter.
SpeechPOST(q, raw) ==
    /\ Receive
    /\ UNCHANGED sessions
    /\ IF q = NoSession
       THEN /\ event' = Event("speech", "noParam", NoSession, 400, Null, Null)
            /\ UNCHANGED tasks
       ELSE IF ~HasSession(sessions, q)
       THEN /\ event' = Event("speech", "unknown", NoSession, 404, Null, Null)
            /\ UNCHANGED tasks
       ELSE /\ tasks' = Suspend(Task("speech", "formData", q, raw, <<>>))
            /\ event' = Event("speech", "accepted", q, 0, Null, Null)

\* Variant: the form field is used untrimmed.
SpeechResult_NoTrim(raw) == IF raw = Null THEN <<>> ELSE raw

\* (formData.get("SpeechResult") as string | null)?.trim() ?? ""
SpeechResult(raw) == TrimOrElse(raw, <<>>)

\* Variant: the user turn is not recorded before the model is called.
SpeechTurnStore_NoUserTurn(ss, id, speechResult) ==
    UpdateStatus(ss, id, "in-progress")

\* Variant: the user turn is put in front of the transcript.
SpeechTurnStore_UserFirst(ss, id, speechResult) ==
    IF speechResult = <<>>
    THEN UpdateStatus(ss, id, "in-progress")
    ELSE [UpdateStatus(ss, id, "in-progress") EXCEPT
              ![id].transcript = <<Turn("user", speechResult)>> \o @]

\* Variant: the user turn is written over the transcript that was read when
\* the handler started, instead of being appended to the current one.
SpeechTurnStore_Overwrites(ss, id, speechResult) ==
    IF speechResult = <<>>
    THEN UpdateStatus(ss, id, "in-progress")
    ELSE [UpdateStatus(ss, id, "in-progress") EXCEPT
              ![id].transcript = <<Turn("user", speechResult)>>]

\* From updateStatus to the await of the completion call.
SpeechTurnStore(ss, id, speechResult) ==
    IF speechResult = <<>>
    THEN UpdateStatus(ss, id, "in-progress")
    ELSE AppendMessage(UpdateStatus(ss, id, "in-progress"), id, "user", speechResult)

SpeechTurn(t) ==
    /\ t \in InFlight /\ t.kind = "speech" /\ t.pc = "formData"
    /\ UNCHANGED started
    /\ sessions' = SpeechTurnStore(sessions, t.session, SpeechResult(t.speech))
    /\ IF SpeechResult(t.speech) = <<>>
       THEN /\ tasks' = Resume(t)
            /\ event' = Event("speech", "reprompt", t.session, 200,
                              RePrompt, OpeningQuestion)
       ELSE /\ tasks' = Resume(t) (+) SetToBag({Task("speech", "model", t.session,
                            t.speech, GetMessagesForModel(sessions', t.session))})
            /\ event' = Event("speech", "user", t.session, 0, Null, Null)

\* completion.choices[0]?.message?.content?.trim() ?? fallbackLine(), and the
\* catch branch.
AssistantReply(outcome) ==
    IF outcome.ok THEN TrimOrElse(outcome.content, FallbackLine) ELSE FallbackLine

\* Variant: without the catch branch a failed completion appends nothing.
SpeechReplyStore_NoCatch(ss, id, outcome) ==
    IF outcome.ok
    THEN AppendMessage(ss, id, "assistant", AssistantReply(outcome))
    ELSE ss

\* Variant: the handler writes back the status it set before the model call.
SpeechReplyStore_RestoresStatus(ss, id, outcome) ==
    [AppendMessage(ss, id, "assistant", AssistantReply(outcome)) EXCEPT
         ![id].status = "in-progress"]

\* Variant: a failed completion is also recorded as the session's error.
SpeechReplyStore_RecordsError(ss, id, outcome) ==
    LET appended == AppendMessage(ss, id, "assistant", AssistantReply(outcome))
    IN IF outcome.ok THEN appended ELSE SetError(appended, id, "model failed")

SpeechReplyStore(ss, id, outcome) ==
    AppendMessage(ss, id, "assistant", AssistantReply(outcome))

\* The completion call settled: append the reply and return the script.
SpeechReply(t, outcome) ==
    /\ t \in InFlight /\ t.kind = "speech" /\ t.pc = "model"
    /\ UNCHANGED started
    /\ sessions' = SpeechReplyStore(sessions, t.session, outcome)
    /\ tasks' = Resume(t)
    /\ event' = Event("speech", IF outcome.ok THEN "reply" ELSE "modelFailed",
                      t.session, 200, Null, AssistantReply(outcome))

(* ----------------------- POST /api/twilio-status ---------------------- *)

\* Variant: a mapper whose default branch reports the call as completed.
MapTwilioStatus_DefaultCompleted(status) ==
    CASE status \in {"initiated", "queued"} -> "queued"
      [] status = "ringing" -> "ringing"
      [] status \in {"answered", "in-progress"} -> "in-progress"
      [] status = "completed" -> "completed"
      [] status = "no-answer" -> "no-answer"
      [] OTHER -> "completed"

MapTwilioStatus(status) ==
    CASE status \in {"initiated", "queued"} -> "queued"
      [] status = "ringing" -> "ringing"
      [] status \in {"answered", "in-progress"} -> "in-progress"
      [] status = "completed" -> "completed"
      [] status = "no-answer" -> "no-answer"
      [] OTHER -> "failed"

\* Variant: a callback that names no known session is given to the session
\* created first.
ResolveSession_FallsBack(ss, q, callSid) ==
    IF q # NoSession /\ HasSession(ss, q) THEN q
    ELSE IF callSid # NoSid /\ LookupSessionByCallSid(ss, callSid) # NoSession
    THEN LookupSessionByCallSid(ss, callSid)
    ELSE IF DOMAIN ss # {} THEN CHOOSE id \in DOMAIN ss : \A j \in DOMAIN ss : id <= j
    ELSE NoSession

\* The session the callback resolves to: by the query parameter, else by CallSid.
ResolveSession(ss, q, callSid) ==
    IF q # NoSession /\ HasSession(ss, q) THEN q
    ELSE IF callSid # NoSid THEN LookupSessionByCallSid(ss, callSid)
    ELSE NoSession

\* Variant: the mapped status is assigned to the session directly instead of
\* going through updateStatus.
StatusStore_Assigns(ss, id, status) ==
    [ss EXCEPT ![id].status = MapTwilioStatus(status)]

\* Variant: the mapped status is applied to every session of the store.
StatusStore_AllSessions(ss, id, status) ==
    [other \in DOMAIN ss |->
        UpdateStatus(ss, other, MapTwilioStatus(status))[other]]

\* Variant: a completed callback leaves the status update for after the
\* summarization.
StatusStore_DefersCompleted(ss, id, status) ==
    IF status = "completed" THEN ss
    ELSE UpdateStatus(ss, id, MapTwilioStatus(status))

\* Variant: a failed call is detached from its provider call id.
StatusStore_DetachesFailed(ss, id, status) ==
    LET updated == UpdateStatus(ss, id, MapTwilioStatus(status))
    IN IF MapTwilioStatus(status) = "failed"
       THEN SetCallSid(updated, id, NoSid) ELSE updated

StatusStore(ss, id, status) == UpdateStatus(ss, id, MapTwilioStatus(status))

\* status === "completed", and maybeSummarize's early return
StartsSummary(ss, id, status) ==
    /\ status = "completed"
    /\ HasSession(ss, id)
    /\ Len(ss[id].transcript) # 0

\* Up to the await of the summarization call, or to the acknowledgment.
StatusPOST(q, callSid, raw) ==
    LET status == ToLowerCase(raw)
        id == ResolveSession(sessions, q, callSid)
    IN /\ Receive
       /\ IF id = NoSession \/ status = NoStatus
          THEN /\ event' = Event("status", "ignored", NoSession, 200, Null, Null)
               /\ UNCHANGED <<sessions, tasks>>
          ELSE /\ sessions' = StatusStore(sessions, id, status)
               /\ IF StartsSummary(sessions', id, status)
                  THEN /\ tasks' = Suspend(Task("status", "summarize", id, Null, <<>>))
                       /\ event' = Event("status", "summarize", id, 0, Null, Null)
                  ELSE /\ UNCHANGED tasks
                       /\ event' = Event("status", "updated", id, 200, Null, Null)

\* completion.choices[0]?.message?.content?.trim() ?? "Call completed. ..."
SummaryText(outcome) == TrimOrElse(outcome.content, SummaryUnavailable)

\* Variant: a failed summarization is recorded on the session as an error.
SummaryStore_RecordsFailure(ss, id, outcome) ==
    IF outcome.ok THEN SetSummary(ss, id, SummaryText(outcome))
                  ELSE SetError(ss, id, "summary failed")

SummaryStore(ss, id, outcome) ==
    IF outcome.ok THEN SetSummary(ss, id, SummaryText(outcome)) ELSE ss

\* The summarization call settled: store the summary and acknowledge.
StatusSummarized(t, outcome) ==
    /\ t \in InFlight /\ t.kind = "status" /\ t.pc = "summarize"
    /\ UNCHANGED started
    /\ sessions' = SummaryStore(sessions, t.session, outcome)
    /\ tasks' = Resume(t)
    /\ event' = Event("status", IF outcome.ok THEN "summarized" ELSE "summaryFailed",
                      t.session, 200, Null, Null)

(* --------------------------- specification ---------------------------- *)

Next ==
    \/ \E env \in Envs, p \in Payloads : LaunchRequest(env, p)
    \/ \E t \in InFlight, ok \in BOOLEAN : LaunchPlaced(t, ok)
    \/ \E q \in SessionIds \cup {NoSession} : VoiceScriptGET(q)
    \/ \E q \in SessionIds \cup {NoSession}, raw \in SpeechResults : SpeechPOST(q, raw)
    \/ \E t \in InFlight : SpeechTurn(t)
    \/ \E t \in InFlight, o \in ReplyOutcomes : SpeechReply(t, o)
    \/ \E q \in SessionIds \cup {NoSession}, sid \in CallSids \cup {NoSid},
          raw \in ProviderStatuses : StatusPOST(q, sid, raw)
    \/ \E t \in InFlight, o \in SummaryOutcomes : StatusSummarized(t, o)

Spec == Init /\ [][Next]_vars

\* The awaits of the speech handler settle: request.formData() resolves, and
\* the completion call returns or throws.
LiveSpec ==
    /\ Init /\ [][Next]_vars
    /\ WF_vars(\E t \in InFlight : SpeechTurn(t))
    /\ WF_vars(\E t \in InFlight, outcome \in ReplyOutcomes : SpeechReply(t, outcome))

(* ------------------------------ helpers ------------------------------- *)

Known == DOMAIN sessions
Transcript(id) == sessions[id].transcript
Last(seq) == seq[Len(seq)]
SystemTurns(tr) == Cardinality({i \in 1..Len(tr) : tr[i].role = "system"})
NonSystemTurns(tr) == Cardinality({i \in 1..Len(tr) : tr[i].role # "system"})

\* The handler suspended as t ran its next step in this transition.
Acted(t) == CopiesIn(t, tasks') < CopiesIn(t, tasks)
\* No handler was suspended at a new await in this transition.
NothingSuspended == \A t \in BagToSet(tasks') : CopiesIn(t, tasks') <= CopiesIn(t, tasks)

IsBlank(raw) == raw = Null \/ \A i \in 1..Len(raw) : raw[i] = " "

(* ------------------------------- claims ------------------------------- *)

\* C1: in every step of every interleaving of the handlers, a session's
\* status does not move backwards under draft < queued < ringing <
\* in-progress, and a status of completed, no-answer or failed never changes.
C1_StatusMonotone ==
    [][\A id \in Known :
         LET a == sessions[id].status
             b == sessions'[id].status
         IN /\ a \in Terminal => b = a
            /\ a \notin Terminal => Rank(a) <= Rank(b)]_vars

\* A late speech webhook was handled on a session that is already completed.
C1_Witness ==
    /\ event.handler = "speech" /\ event.step = "reprompt"
    /\ event.session \in Known
    /\ sessions[event.session].status = "completed"

\* C2: a transcript holds at most one system turn, and a system turn is the
\* first turn of its transcript.
C2_GreetingFirst ==
    \A id \in Known :
        /\ SystemTurns(Transcript(id)) <= 1
        /\ \A i \in 1..Len(Transcript(id)) :
               Transcript(id)[i].role = "system" => i = 1

\* C3: a voice-script GET handled for a session leaves exactly one system turn
\* in its transcript, and a transcript with exactly one system turn keeps
\* exactly one in every later step; so N >= 1 GETs, interleaved with anything,
\* yield exactly one system turn.
C3_GreetingOnce ==
    [][/\ event'.step = "greeted" =>
              SystemTurns(sessions'[event'.session].transcript) = 1
       /\ \A id \in Known :
              SystemTurns(Transcript(id)) = 1 =>
                  SystemTurns(sessions'[id].transcript) = 1]_vars

\* A GET handled on a session whose transcript already held the greeting and
\* a later turn: the second GET at least.
C3_Witness ==
    /\ event.step = "greeted"
    /\ Len(Transcript(event.session)) >= 2
    /\ Transcript(event.session)[1] = Turn("system", Greeting)
    /\ SystemTurns(Transcript(event.session)) = 1

\* C4: the step of a speech handler that reads a non-blank SpeechResult
\* appends exactly one turn, the user turn with the trimmed text, and suspends
\* at the model call; the step at which the model call settles, with success
\* or with failure, appends exactly one assistant turn and returns.
C4_TwoTurns ==
    [][\A t \in InFlight :
         (t.kind = "speech" /\ Acted(t)) =>
            LET before == Transcript(t.session)
                after == sessions'[t.session].transcript
            IN /\ (t.pc = "formData" /\ ~IsBlank(t.speech)) =>
                     /\ after = Append(before, Turn("user", Trim(t.speech)))
                     /\ \E u \in BagToSet(tasks') :
                            u.pc = "model" /\ CopiesIn(u, tasks') > CopiesIn(u, tasks)
               /\ t.pc = "model" =>
                     /\ Len(after) = Len(before) + 1
                     /\ SubSeq(after, 1, Len(before)) = before
                     /\ Last(after).role = "assistant"
                     /\ NothingSuspended]_vars

\* A speech handler returned after its model call succeeded, and the
\* transcript ends with its user turn and its assistant turn.
C4_Witness ==
    /\ event.step = "reply"
    /\ LET tr == Transcript(event.session)
       IN /\ Len(tr) >= 2
          /\ tr[Len(tr) - 1] = Turn("user", <<"h", "i">>)
          /\ tr[Len(tr)] = Turn("assistant", <<"o", "k">>)

\* C5: no user turn is immediately followed by another user turn.
C5_Alternates ==
    \A id \in Known :
        \A i \in 1..(Len(Transcript(id)) - 1) :
            ~(Transcript(id)[i].role = "user" /\ Transcript(id)[i + 1].role = "user")

\* C6: the step of a speech handler that reads an absent, empty or
\* whitespace-only SpeechResult leaves every transcript as it is, suspends
\* nothing at a model call, and returns 200 saying the fixed re-prompt and
\* gathering with the opening question, the prompt of the voice-script GET.
C6_BlankSpeech ==
    [][\A t \in InFlight :
         (t.kind = "speech" /\ t.pc = "formData" /\ Acted(t) /\ IsBlank(t.speech)) =>
            /\ \A id \in Known : sessions'[id].transcript = Transcript(id)
            /\ tasks' = tasks (-) SetToBag({t})
            /\ event' = Event("speech", "reprompt", t.session, 200,
                              RePrompt, OpeningQuestion)]_vars

\* The re-prompt was returned for a session whose transcript holds the
\* greeting alone.
C6_Witness ==
    /\ event.step = "reprompt" /\ event.code = 200
    /\ event.say = RePrompt /\ event.gather = OpeningQuestion
    /\ Transcript(event.session) = <<Turn("system", Greeting)>>

\* C7: the step at which the completion call of a speech handler fails
\* appends exactly one turn, the assistant turn with the fallback line, issues
\* no further model call, and returns 200 with the fallback line as the reply.
C7_ModelFailure ==
    [][event'.step = "modelFailed" =>
          LET id == event'.session
              before == Transcript(id)
              after == sessions'[id].transcript
          IN /\ after = Append(before, Turn("assistant", FallbackLine))
             /\ NothingSuspended
             /\ BagCardinality(tasks') = BagCardinality(tasks) - 1
             /\ event'.code = 200
             /\ event'.gather = FallbackLine]_vars

\* A speech handler returned after its model call failed; the transcript ends
\* with its user turn and the fallback line.
C7_Witness ==
    /\ event.step = "modelFailed" /\ event.code = 200
    /\ LET tr == Transcript(event.session)
       IN /\ Len(tr) >= 2
          /\ tr[Len(tr) - 1].role = "user"
          /\ tr[Len(tr)] = Turn("assistant", FallbackLine)

\* C8: every turn of every transcript has non-empty content.
C8_ContentNonEmpty ==
    \A id \in Known :
        \A i \in 1..Len(Transcript(id)) : Transcript(id)[i].content # <<>>

\* C9: a step issues a summarization request for a session exactly when it is
\* a status callback that changes the session's status into completed while
\* the transcript holds at least one non-system turn.
C9_SummarizeIff ==
    [][\A id \in Known :
         (event'.step = "summarize" /\ event'.session = id)
         <=> /\ event'.handler = "status"
             /\ event'.session = id
             /\ sessions[id].status # "completed"
             /\ sessions'[id].status = "completed"
             /\ NonSystemTurns(Transcript(id)) > 0]_vars

\* C10: a summary that is set keeps its value in every later step.
C10_SummarySetOnce ==
    [][\A id \in Known :
         sessions[id].summary # Null =>
             sessions'[id].summary = sessions[id].summary]_vars

\* C11: in every reachable state, a session whose summary is set has status
\* completed.
C11_SummaryOnlyCompleted ==
    \A id \in Known :
        sessions[id].summary # Null => sessions[id].status = "completed"

\* C12: the step at which the summarization model call fails leaves the
\* session as it was (summary, status and lastError included; a completed
\* session stays completed with no summary), and the status callback handler
\* returns its acknowledgment without suspending again.
C12_SummaryFailure ==
    [][\A t \in InFlight :
         (t.kind = "status" /\ Acted(t) /\ event'.step = "summaryFailed") =>
            /\ sessions' = sessions
            /\ event'.handler = "status" /\ event'.session = t.session
            /\ event'.code = 200
            /\ NothingSuspended]_vars

\* The summarization of a completed session failed: the session is completed,
\* has no summary and no error, and the callback was acknowledged.
C12_Witness ==
    /\ event.step = "summaryFailed" /\ event.code = 200
    /\ sessions[event.session].status = "completed"
    /\ sessions[event.session].summary = Null
    /\ sessions[event.session].lastError = NoError

\* C14: the step at which call placement fails for a created session records
\* the failure text as the session's lastError, returns it to the requester
\* in a 502 response, leaves the status as it was (draft stays draft) and
\* leaves the call id absent.
C14_PlacementFailure ==
    [][\A t \in InFlight :
         (t.kind = "launch" /\ Acted(t) /\ event'.step = "placeFailed") =>
            LET before == sessions[t.session]
                after == sessions'[t.session]
            IN /\ after.lastError = PlaceError
               /\ event'.session = t.session
               /\ event'.code = 502 /\ event'.error = PlaceError
               /\ after.status = before.status
               /\ before.callSid = NoSid /\ after.callSid = NoSid
               /\ after.transcript = before.transcript
               /\ NothingSuspended]_vars

\* A placement failed for a session that no webhook had touched: the session
\* is a draft without call id, carrying the failure text.
C14_Witness ==
    /\ event.step = "placeFailed" /\ event.error = PlaceError
    /\ sessions[event.session].status = "draft"
    /\ sessions[event.session].callSid = NoSid
    /\ sessions[event.session].lastError = PlaceError

\* C15: in every step, every session stays in the store under its id with
\* the same sessionId, a session created in the step has no call id, and a
\* call id that is set keeps its value.
C15_IdsImmutable ==
    [][/\ \A id \in Known :
              /\ id \in DOMAIN sessions'
              /\ sessions[id].sessionId = id
              /\ sessions'[id].sessionId = sessions[id].sessionId
              /\ sessions[id].callSid # NoSid =>
                     sessions'[id].callSid = sessions[id].callSid
       /\ \A id \in DOMAIN sessions' \ Known :
              sessions'[id].callSid = NoSid]_vars

\* A status callback mapped to failed was applied to a session that keeps the
\* call id it was given when its call was placed.
C15_Witness ==
    /\ event.handler = "status" /\ event.step = "updated"
    /\ sessions[event.session].status = "failed"
    /\ sessions[event.session].callSid = CallSidOf(event.session)

\* C16: in every step, every session's transcript before the step is a
\* prefix of its transcript after the step.
C16_AppendOnly ==
    [][\A id \in Known :
         LET before == Transcript(id)
             after == sessions'[id].transcript
         IN /\ Len(before) <= Len(after)
            /\ SubSeq(after, 1, Len(before)) = before]_vars

\* A greeting was captured on a transcript that already held a user turn and
\* its assistant turn, and was appended after them.
C16_Witness ==
    /\ event.step = "greeted"
    /\ Len(Transcript(event.session)) = 3
    /\ Transcript(event.session)[1].role = "user"
    /\ Transcript(event.session)[3] = Turn("system", Greeting)

TurnsOf(id, role) ==
    Cardinality({i \in 1..Len(Transcript(id)) : Transcript(id)[i].role = role})
\* Speech handlers of the session that wait for their model call.
AwaitingReply(id) ==
    LET waiting == {t \in InFlight : t.kind = "speech" /\ t.pc = "model"
                                      /\ t.session = id}
    IN BagCardinality([t \in waiting |-> CopiesIn(t, tasks)])
\* Handlers of the session that have not returned yet.
Running(id) == {t \in InFlight : t.session = id}

\* C17: in every reachable state, whatever the interleaving, each session's
\* transcript holds one user turn for every speech handler that passed its
\* user turn and one assistant turn for every one of them that returned, so
\* once all handlers of the session have finished it holds as many assistant
\* turns as user turns; and no status write is undone: a session with a call
\* id is past draft, a session with a greeting or a user turn is at least
\* in-progress, and a session whose completed callback was handled is in a
\* terminal status.
C17_NoLostUpdate ==
    \A id \in Known :
        /\ TurnsOf(id, "user") = TurnsOf(id, "assistant") + AwaitingReply(id)
        /\ Running(id) = {} => TurnsOf(id, "user") = TurnsOf(id, "assistant")
        /\ sessions[id].callSid # NoSid => Rank(sessions[id].status) >= Rank("queued")
        /\ (TurnsOf(id, "user") > 0 \/ TurnsOf(id, "system") > 0) =>
               Rank(sessions[id].status) >= Rank("in-progress")
        /\ (event.session = id /\ event.step \in {"summarize", "summarized", "summaryFailed"}) =>
               sessions[id].status \in Terminal

\* Two speech webhooks of one session overlapped (both user turns were
\* appended before either reply), a status callback ended the call, and all
\* handlers have returned: the transcript holds both pairs of turns.
C17_Witness ==
    /\ tasks = EmptyBag
    /\ \E id \in Known :
          /\ Len(Transcript(id)) = 4
          /\ Transcript(id)[1].role = "user" /\ Transcript(id)[2].role = "user"
          /\ Transcript(id)[3].role = "assistant" /\ Transcript(id)[4].role = "assistant"
          /\ sessions[id].status \in Terminal

\* A speech handler of the session, with non-blank speech, has not returned.
SpeechOpen(id) ==
    \E t \in InFlight : t.kind = "speech" /\ t.session = id /\ ~IsBlank(t.speech)

\* C18: when the awaits of the speech handler settle, a speech webhook with
\* non-blank speech accepted for a known session leads to a state where every
\* such handler of the session has returned and every user turn of the
\* transcript has its assistant turn, whether the model calls succeeded or
\* failed.
C18_ReplyEventually ==
    \A id \in SessionIds :
        SpeechOpen(id) ~>
            (/\ ~SpeechOpen(id)
             /\ id \in Known
             /\ TurnsOf(id, "user") > 0
             /\ TurnsOf(id, "user") = TurnsOf(id, "assistant"))

\* A speech handler returned after its model call failed, and no user turn
\* of the session is left without its assistant turn.
C18_Witness ==
    /\ event.step = "modelFailed" /\ event.code = 200
    /\ ~SpeechOpen(event.session)
    /\ TurnsOf(event.session, "user") > 0
    /\ TurnsOf(event.session, "user") = TurnsOf(event.session, "assistant")
    /\ Last(Transcript(event.session)) = Turn("assistant", FallbackLine)

\* Request bodies that are not JSON or break one rule of the schema each.
MalformedPayloads ==
    {BadJson,
     Payload(7, 5, 12, 20, 5, 5, 6), Payload(10, 1, 12, 20, 5, 5, 6),
     Payload(10, 5, 5, 20, 5, 5, 6), Payload(10, 5, 12, 5, 5, 5, 6),
     Payload(10, 5, 12, 20, 1, 5, 6), Payload(10, 5, 12, 20, 5, 1, 6),
     Payload(10, 5, 12, 20, 5, 5, 16), Payload(10, 5, 12, 20, 5, 5, -1)}

\* C19: a launch request with a malformed payload is answered 400 or 422
\* and changes nothing: no session is created, every existing session is as
\* before, and no call placement is started.
C19_MalformedRejected ==
    [][event'.handler = "launch" =>
         \A p \in MalformedPayloads :
            LaunchRequest("ok", p) =>
               /\ sessions' = sessions
               /\ tasks' = tasks
               /\ event'.code \in {400, 422}]_vars

\* A malformed payload was rejected while a session existed.
C19_Witness ==
    /\ event.handler = "launch" /\ event.step = "invalid" /\ event.code = 422
    /\ Known # {}

\* C20: in every step, a session's lastError changes only in the step at
\* which its call placement failed, and a session created in the step has no
\* lastError; so a failed completion, a re-prompt, a discarded status update
\* and a failed summarization leave it unchanged.
C20_LastErrorFrame ==
    [][/\ \A id \in Known :
              sessions'[id].lastError # sessions[id].lastError =>
                  event'.step = "placeFailed" /\ event'.session = id
       /\ \A id \in DOMAIN sessions' \ Known :
              sessions'[id].lastError = NoError
       /\ event'.step \in {"modelFailed", "reprompt", "summaryFailed", "updated"} =>
              \A id \in Known : sessions'[id].lastError = sessions[id].lastError]_vars

\* A completion failed on a session that was already terminal (the
\* handler's status update was discarded), and the session has no lastError.
C20_Witness ==
    /\ event.step = "modelFailed"
    /\ sessions[event.session].status \in Terminal
    /\ sessions[event.session].lastError = NoError

\* The status graph as its edges, and reachability as a path of at least one
\* edge: the edges closed under composition (no path has more than four
\* edges).
StatusEdges ==
    {<<"draft", "queued">>, <<"queued", "ringing">>, <<"ringing", "in-progress">>,
     <<"in-progress", "completed">>, <<"in-progress", "no-answer">>,
     <<"in-progress", "failed">>}
Extend(paths) ==
    paths \cup {<<pq[1][1], pq[2][2]>> :
                   pq \in {x \in paths \X StatusEdges : x[1][2] = x[2][1]}}
GraphReach == Extend(Extend(Extend(StatusEdges)))
InGraph(cur, target) == <<cur, target>> \in GraphReach
\* One provider status for every internal status a callback can target.
CallbackTargets ==
    {"queued", "ringing", "in-progress", "completed", "no-answer", "busy"}
\* The status a session is expected to have after an update towards target.
Applied(id, target) ==
    IF InGraph(sessions[id].status, target) THEN target ELSE sessions[id].status

\* The mapping as a table of (provider status, internal status) pairs; a
\* provider status without a pair is expected to map to failed.
StatusTable ==
    {<<"initiated", "queued">>, <<"queued", "queued">>,
     <<"ringing", "ringing">>,
     <<"answered", "in-progress">>, <<"in-progress", "in-progress">>,
     <<"completed", "completed">>,
     <<"no-answer", "no-answer">>}
Tabled(raw) ==
    IF \E pair \in StatusTable : pair[1] = raw
    THEN (CHOOSE pair \in StatusTable : pair[1] = raw)[2]
    ELSE "failed"
\* The mapper gives every provider status the internal status of the table.
MapperMatchesTable ==
    \A raw \in ProviderStatuses :
        /\ MapTwilioStatus(raw) \in Statuses
        /\ MapTwilioStatus(raw) = Tabled(raw)
TabledStatus == [raw \in ProviderStatuses |-> Tabled(raw)]

\* C13: the status mapper gives every provider status an internal status,
\* the one of the table and failed for every status outside it (busy, failed,
\* canceled, an unknown word, a word in capitals, the empty string); and in
\* every reachable state the status a status callback leaves behind is the
\* one an update towards the tabled status gives.
C13_MapperTable ==
    [](/\ MapperMatchesTable
       /\ \A id \in Known, raw \in ProviderStatuses :
             StatusStore(sessions, id, raw)[id].status = Applied(id, TabledStatus[raw]))

\* A status callback outside the table was applied: the session is failed
\* although no placement failed.
C13_Witness ==
    /\ event.handler = "status" /\ event.step = "updated"
    /\ sessions[event.session].status = "failed"
    /\ sessions[event.session].lastError = NoError

\* C21: in every reachable state and for every session, each status update a
\* handler can make (queued when the call is placed, in-progress at a
\* voice-script request or a speech turn, the mapped status of a status
\* callback) leaves the target as the status when the target is reachable
\* from the current status in the graph, and leaves the status unchanged
\* exactly when it is not.
C21_UpdateIffReachable ==
    [](\A id \in Known :
         /\ LaunchStore(sessions, id, CallSidOf(id))[id].status = Applied(id, "queued")
         /\ VoiceScriptStore(sessions, id)[id].status = Applied(id, "in-progress")
         /\ \A raw \in SpeechResults :
               SpeechTurnStore(sessions, id, SpeechResult(raw))[id].status =
                   Applied(id, "in-progress")
         /\ \A raw \in CallbackTargets :
               StatusStore(sessions, id, raw)[id].status =
                   Applied(id, MapTwilioStatus(raw)))

\* The first voice-script request of a placed call moved the session forward
\* to in-progress, skipping ringing.
C21_Witness ==
    /\ event.step = "greeted"
    /\ sessions[event.session].callSid # NoSid
    /\ sessions[event.session].status = "in-progress"
    /\ Len(Transcript(event.session)) = 1

\* C22: the message history a speech handler holds while it waits for its
\* model call ends with the user turn that handler appended, and is the
\* beginning of the session's transcript, turn for turn in insertion order.
C22_HistoryEndsWithOwnTurn ==
    \A t \in InFlight :
        (t.kind = "speech" /\ t.pc = "model") =>
            /\ Len(t.messages) > 0
            /\ Last(t.messages) = Turn("user", Trim(t.speech))
            /\ Len(t.messages) <= Len(Transcript(t.session))
            /\ SubSeq(Transcript(t.session), 1, Len(t.messages)) = t.messages

\* Two speech handlers of one session wait for their model calls; the second
\* one's history holds the first one's user turn and then its own.
C22_Witness ==
    \E t, u \in InFlight :
        /\ t.kind = "speech" /\ t.pc = "model"
        /\ u.kind = "speech" /\ u.pc = "model" /\ u.session = t.session
        /\ Len(u.messages) = Len(t.messages) + 1
        /\ Last(u.messages).role = "user"

\* Speech handlers that wait for their model call.
AwaitingModel == {t \in InFlight : t.kind = "speech" /\ t.pc = "model"}

\* C23: while a speech handler waits for its model call and requests still
\* arrive, a status callback for its session and a voice-script request for
\* any session can be handled at once (nothing waits for the model call);
\* and the step at which the speech handler resumes changes only the
\* transcript of its session, so a status applied during the wait stays.
C23_NoLockDuringModelCall ==
    /\ [](\A t \in AwaitingModel :
             started < MaxRequests =>
                /\ ENABLED StatusPOST(t.session, NoSid, "completed")
                /\ \A id \in Known : ENABLED VoiceScriptGET(id)
                /\ \A id \in Known : ENABLED SpeechPOST(id, Null))
    /\ [][event'.step \in {"reply", "modelFailed"} =>
            \A id \in Known :
                sessions'[id] = [sessions[id] EXCEPT
                                    !.transcript = sessions'[id].transcript]]_vars

\* After one launch and one speech webhook, the third request, a status
\* callback, was handled and acknowledged while the speech handler was
\* waiting for its model call: it moved the session from in-progress to
\* no-answer.
C23_Witness ==
    /\ started = 3
    /\ event.handler = "status" /\ event.step = "updated" /\ event.code = 200
    /\ sessions[event.session].status = "no-answer"
    /\ \E t \in AwaitingModel : t.session = event.session

\* Status callback handlers that wait for their summarization call.
Summarizing == {t \in InFlight : t.kind = "status" /\ t.pc = "summarize"}

\* C24: whenever a summarization call is in flight for a session, or the
\* last step started one or stored or failed to store a summary, the
\* completed update of that session has been attempted already: the session
\* is in a terminal status (completed, or the terminal status that made the
\* update be discarded).
C24_StatusBeforeSummary ==
    /\ \A t \in Summarizing : sessions[t.session].status \in Terminal
    /\ event.step \in {"summarize", "summarized", "summaryFailed"} =>
           /\ event.handler = "status"
           /\ sessions[event.session].status \in Terminal

\* A completed callback has set the session to completed and its
\* summarization call is still in flight.
C24_Witness ==
    /\ event.step = "summarize" /\ event.code = 0
    /\ sessions[event.session].status = "completed"
    /\ sessions[event.session].summary = Null
    /\ \E t \in Summarizing : t.session = event.session

\* Query parameters, call ids and statuses of status callbacks.
CallbackQueries == SessionIds \cup {NoSession}
CallbackSids == CallSids \cup {NoSid}
CallbackStatuses == {"completed", NoStatus}
\* The callback names no session of the store, by parameter or by call id.
ResolvesToNone(q, sid) ==
    /\ q \notin Known
    /\ sid = NoSid \/ \A id \in Known : sessions[id].callSid # sid

\* C25: in every reachable state, a status callback that names no session of
\* the store (unknown or missing session parameter, unknown or missing call
\* id) or carries no status cannot be handled in any other way than by
\* leaving every session as it was, starting no summarization and
\* answering 200.
C25_UnresolvedCallback ==
    [](\A q \in CallbackQueries, sid \in CallbackSids, raw \in CallbackStatuses :
         (ResolvesToNone(q, sid) \/ raw = NoStatus) =>
             ~ENABLED (/\ StatusPOST(q, sid, raw)
                       /\ ~(/\ sessions' = sessions
                            /\ tasks' = tasks
                            /\ event'.handler = "status" /\ event'.code = 200)))

\* A callback was ignored while a session with a transcript and a call id
\* existed and was not yet in a terminal status.
C25_Witness ==
    /\ event.handler = "status" /\ event.step = "ignored" /\ event.code = 200
    /\ \E id \in Known :
          /\ sessions[id].callSid # NoSid
          /\ sessions[id].status \notin Terminal
          /\ Len(Transcript(id)) > 0

\* C26: in every reachable state, a speech webhook that names a session the
\* store does not hold cannot be handled in any other way than by answering
\* 404 with the store unchanged (no session created, no turn appended, no
\* status changed) and no handler left waiting (no model call).
C26_UnknownSpeechSession ==
    [](\A q \in SessionIds \ Known, raw \in SpeechResults :
         ~ENABLED (/\ SpeechPOST(q, raw)
                   /\ ~(/\ sessions' = sessions
                        /\ tasks' = tasks
                        /\ event'.handler = "speech" /\ event'.code = 404)))

\* A speech webhook for an unknown session was answered 404 while another
\* session existed.
C26_Witness ==
    /\ event.handler = "speech" /\ event.step = "unknown" /\ event.code = 404
    /\ Known # {} /\ Known # SessionIds

\* C27: in every step, every session other than the one the handler
\* resolved (or created) keeps its status, transcript, summary, call id and
\* lastError, and no session other than that one appears in the store.
C27_OnlyOwnSession ==
    [][/\ \A id \in Known :
              id # event'.session => sessions'[id] = sessions[id]
       /\ DOMAIN sessions' \subseteq Known \cup {event'.session}]_vars

\* A status callback set one session to no-answer while another session,
\* placed and with its greeting captured, stayed in progress.
C27_Witness ==
    /\ event.handler = "status" /\ event.step = "updated"
    /\ sessions[event.session].status = "no-answer"
    /\ \E other \in Known \ {event.session} :
          /\ sessions[other].status = "in-progress"
          /\ Len(Transcript(other)) = 1

====
